---- MODULE Spec2Model ----
(***************************************************************************)
(* Model of the two Markov-chain notebooks of anjapago/markovchains:       *)
(*   - the absorbing-chain notebook (src/unnamed/part_000): one step, one  *)
(*     run until absorption, and the absorption-probability experiment;    *)
(*   - the ergodic-chain notebook (src/ergodic.ipynb): the simulation loop *)
(*     filling statemat, the burn-in estimate and the final report;        *)
(*   - the exact calculation of the absorption probabilities (cells 2, 3   *)
(*     of the absorbing-chain notebook).                                   *)
(* Probabilities are integer weights in twentieths, normalised by their sum *)
(* as np.random.choice normalises its cdf; a uniform sample u stands for   *)
(* the real number u/Denom in [0,1).  Floating-point rounding is not       *)
(* modelled.  States are 1-based as in the notebooks.                      *)
(***************************************************************************)
EXTENDS Integers, Sequences, FiniteSets, TLC

\* ------------------------------------------------------------- bounds
\* number of experiments per start state (10000 / 100 in the notebooks)
numexp == 2
\* number of chain iterations per ergodic experiment (10000 in the notebook)
numiter == 2
\* a step budget against which the absorbing while loop is measured; the
\* loop itself has none, the counter `steps` saturates one above it
MaxSteps == 3
\* how many step outputs of a run the log keeps under the seeded generator
MaxLog == 8

\* resolution of the uniform sample: u in 0 .. Denom-1 stands for u/Denom
Denom == 20

\* ---------------------------------------------------- program constants
\* np.random.seed arguments of the cells
SeedOneStep == 7
SeedOneRun == 100
SeedAbsExperiment == 77
SeedErgodic == 100
\* state0 of the one-step cell and the start of the one-run cell
state0 == 2
\* numstates of the ergodic notebook
numstates_erg == 3

\* first column (0-based) of the burn-in window: 9000 of 10000 iterations
burnin == (9000 * numiter) \div 10000

\* the weight that stands for the probability 1.0: weights are twentieths
One == 20

\* a sum of weights in units of 1e-9
Nano(w) == w * (1000000000 \div One)

\* np.random.choice's tolerance on the sum of p, sqrt(finfo(float64).eps) =
\* 1.4901e-8, in units of 1e-9: a whole number of units exceeds it iff it is
\* greater than 14
atol == 14

\* -------------------------------------------------------------- inputs
\* Absorbing matrices (rows in twentieths).  MabsExample is the Mabs of
\* the notebook; in MabsUnreach state 4 cannot be reached from 2 or 3; in
\* MabsClosed the transient states only lead to each other; in MabsStuck3
\* state 2 is absorbed in state 1 and state 3 never leaves itself.
MabsExample == << <<20, 0, 0, 0>>, <<2, 4, 6, 8>>, <<10, 2, 2, 6>>, <<0, 0, 0, 20>> >>
MabsUnreach == << <<20, 0, 0, 0>>, <<10, 5, 5, 0>>, <<5, 10, 5, 0>>, <<0, 0, 0, 20>> >>
MabsClosed == << <<20, 0, 0, 0>>, <<0, 10, 10, 0>>, <<0, 10, 10, 0>>, <<0, 0, 0, 20>> >>
MabsStuck3 == << <<20, 0, 0, 0>>, <<10, 10, 0, 0>>, <<0, 0, 20, 0>>, <<0, 0, 0, 20>> >>
AbsMatrices == {MabsExample, MabsUnreach, MabsClosed, MabsStuck3}

\* a matrix whose row 2 sums to 1 but holds a negative weight
MabsNegative == << <<20, 0, 0, 0>>, <<4, -2, 10, 8>>, <<10, 2, 2, 6>>, <<0, 0, 0, 20>> >>

\* (matrix, excess) pairs the absorbing notebook is run on.  excess[s] is the
\* amount, in units of 1e-9, by which the sum of row s exceeds the sum of its
\* twentieths: far below the resolution of a draw, it only matters to the test
\* np.random.choice makes of the sum of p.  The pairs are every matrix above
\* as it stands, the notebook's matrix with row 3 off by 5e-9 and by 2e-8, and
\* the matrix with the negative weight.
AbsInputs ==
  {<<M, <<0, 0, 0, 0>> >> : M \in AbsMatrices}
    \cup {<<MabsExample, <<0, 0, 5, 0>> >>, <<MabsExample, <<0, 0, 20, 0>> >>,
          <<MabsNegative, <<0, 0, 0, 0>> >>}

\* the rows of weights in quarters over the four states that sum to 1
Rows4 == {r \in [1 .. 4 -> {0, 5, 10, 15, 20}] : r[1] + r[2] + r[3] + r[4] = One}

\* the matrices the exact calculation is run on: states 1 and 4 absorbing,
\* any two rows of Rows4 for states 2 and 3
ExactMatrices ==
  {<< <<20, 0, 0, 0>>, r2, r3, <<0, 0, 0, 20>> >> : r2 \in Rows4 \cup {<<2, 4, 6, 8>>},
                                                    r3 \in Rows4 \cup {<<10, 2, 2, 6>>}}

\* Ergodic-notebook matrices: the Mergodic of the notebook, a periodic one and
\* a reducible one (state 1 and state 3 closed).
MergodicExample == << <<6, 4, 10>>, <<8, 2, 10>>, <<6, 12, 2>> >>
MergodicPeriodic == << <<0, 20, 0>>, <<0, 0, 20>>, <<20, 0, 0>> >>
MergodicReducible == << <<20, 0, 0>>, <<10, 10, 0>>, <<0, 0, 20>> >>
ErgMatrices == {MergodicExample, MergodicPeriodic, MergodicReducible}

\* initial distributions: the notebook's [1/2, 1/4, 1/4], one without state 3
\* and two pure starts
InitDists == {<<10, 5, 5>>, <<10, 10, 0>>, <<20, 0, 0>>, <<0, 0, 20>>}

\* the (matrix, initial distribution) pairs the ergodic notebook is run on: the
\* notebook's matrix with the two pure starts, the other matrices with every
\* distribution
ErgInputs ==
  {<<M, d>> \in ErgMatrices \X InitDists :
     M = MergodicExample => d \in {<<20, 0, 0>>, <<0, 0, 20>>}}

\* (matrix, initial distribution, excess) triples of the ergodic notebook: the
\* pairs above as they stand, the notebook's matrix with row 3 off by 2e-8
\* started in state 1, and an initial distribution that sums to 19/20
ErgRuns ==
  {<<input[1], input[2], <<0, 0, 0>> >> : input \in ErgInputs}
    \cup {<<MergodicExample, <<20, 0, 0>>, <<0, 0, 20>> >>,
          <<MergodicPeriodic, <<10, 5, 4>>, <<0, 0, 0>> >>}

\* the values random_sample can return: u stands for u/Denom
Uniform == 0 .. (Denom - 1)

VARIABLES
  notebook,     \* which cells are executed: the simulation cells of "absorbic"
                \* or of "ergodic", or the "exact" calculation of the former
  gen,          \* the random generator: "abstract" (any sample) or "lcg" (seeded)
  rng,          \* state of the global numpy generator
  pc,           \* position in the notebook
  Mabs,         \* transition matrix of the absorbing notebook
  Mergodic,     \* transition matrix of the ergodic notebook
  initdist,     \* initial distribution of the ergodic notebook
  rowexcess,    \* per row of the matrix, the excess of its sum in units of 1e-9
  currstate,    \* current state of the chain (1-based; 0 before any cell ran)
  steps,        \* steps taken by the current trial, saturating at MaxSteps + 1
  transidx,     \* index into transient_states of the for-transstate loop
  i,            \* trial index of the absorbing experiment
  finalstates,  \* terminal state of every trial (0 = unfilled)
  simfprobs,    \* 2x2 result rows, numerators over numexp
  exp,          \* trial index of the ergodic experiment
  niter,        \* iteration index of the ergodic experiment
  startstates,  \* start state of every ergodic trial (0 = unfilled)
  statemat,     \* numexp x numiter matrix of recorded states (0 = unfilled)
  draws,        \* np.random.choice calls of the ergodic loops that returned:
                \* <<start draws, single-step transitions>>
  counts,       \* the counts returned by the last np.unique
  timecountspi1, \* per recorded step, the numerator over numexp of the diagnostic
  timeavg,      \* the cumulative time averages: <<numerator, divisor>> per start time
  f1,           \* exact absorption probabilities for state 1: <<numerators, divisor>>
  f4,           \* exact absorption probabilities for state 4: <<numerators, divisor>>
  fsum,         \* the value f1+f4 of the confirming cell: <<numerators, divisor>>
  eigenvalues,  \* the eigenvalues of Mergodic.T as np.linalg.eig returned them
  stationarystate, \* value of the eigenvector cell: <<"columns", selected columns>>
                \* or <<"zeros", vector>>
  estimate,     \* value of the burn-in cell: <<numerators, divisor>>
  reported,     \* value printed by the final comparison: <<numerators, divisor>>
  error,        \* "none" or the exception that ended the execution
  steplog,      \* step outputs of this run (kept under the seeded generator)
  run,          \* 1 in the first execution, 2 in the re-execution
  prev          \* outputs of the first execution, kept for the re-execution

vars == <<notebook, gen, rng, pc, Mabs, Mergodic, initdist, rowexcess, currstate, steps,
          transidx, i, finalstates, simfprobs, exp, niter, startstates,
          statemat, draws, counts, timecountspi1, timeavg, f1, f4, fsum,
          eigenvalues, stationarystate, estimate, reported, error, steplog, run, prev>>

\* ------------------------------------------------------ numpy helpers
RECURSIVE SumSeq(_)
SumSeq(s) == IF s = <<>> THEN 0 ELSE Head(s) + SumSeq(Tail(s))

\* np.zeros(n)
zeros(n) == [k \in 1 .. n |-> 0]

\* statevec = np.zeros((numstates,1)); statevec[currstate-1] = 1
OneHotOffByOne(n, s) == [k \in 1 .. n |-> IF k = s + 1 THEN 1 ELSE 0]
OneHot(n, s) == [k \in 1 .. n |-> IF k = s THEN 1 ELSE 0]

\* M.T
NotTransposed(M) == M
Transpose(M) == [r \in 1 .. Len(M) |-> [c \in 1 .. Len(M) |-> M[c][r]]]

\* np.dot(A, v) for a square matrix and a vector
Dot(A, v) == [r \in 1 .. Len(A) |-> SumSeq([c \in 1 .. Len(v) |-> A[r][c] * v[c]])]

\* statetransprobs = np.dot(M.T, statevec)
statetransprobs(M, s) == Dot(Transpose(M), OneHot(Len(M), s))

\* cdf = p.cumsum(): the running sums of p, each added to `before`
RECURSIVE cumsum_from(_, _)
cumsum_from(p, before) ==
  IF p = <<>> THEN <<>>
  ELSE <<before + Head(p)>> \o cumsum_from(Tail(p), before + Head(p))

cumsum(p) == cumsum_from(p, 0)

\* np.random.choice(a=list(range(n)), p=p) for the uniform sample u/Denom:
\* cdf = cumsum(p); cdf /= cdf[-1]; index = cdf.searchsorted(u, side='right'),
\* the number of cdf entries <= u.  The result is the 0-based index.
choiceSideLeft(p, u) == LET cdf == cumsum(p)
                        IN Cardinality({j \in 1 .. Len(p) : cdf[j] * Denom < u * cdf[Len(p)]})
choiceOneBased(p, u) == LET cdf == cumsum(p)
                        IN 1 + Cardinality({j \in 1 .. Len(p) : cdf[j] * Denom <= u * cdf[Len(p)]})
choice(p, u) == LET cdf == cumsum(p)
                IN Cardinality({j \in 1 .. Len(p) : cdf[j] * Denom <= u * cdf[Len(p)]})

Abs(x) == IF x < 0 THEN 0 - x ELSE x

\* np.random.choice validates p before it draws: it raises ValueError
\* ("probabilities are not non-negative") if an entry of p is negative and
\* ValueError ("probabilities do not sum to 1") if the sum of p differs from 1
\* by more than atol.  x is the excess of the sum of p in units of 1e-9.
choice_raises_sum_only(p, x) == Abs(Nano(SumSeq(p) - One) + x) > atol
choice_raises(p, x) ==
  \/ \E k \in 1 .. Len(p) : p[k] < 0
  \/ Abs(Nano(SumSeq(p) - One) + x) > atol

\* the sorted distinct values of a set of numbers, as np.unique orders them
RECURSIVE SortedSeq(_)
SortedSeq(S) == IF S = {} THEN <<>>
                ELSE LET m == CHOOSE x \in S : \A y \in S : x <= y
                     IN <<m>> \o SortedSeq(S \ {m})

\* the distinct values of a flat array in the order of their first occurrence
RECURSIVE first_occurrences(_, _)
first_occurrences(arr, seen) ==
  IF arr = <<>> THEN <<>>
  ELSE IF Head(arr) \in seen THEN first_occurrences(Tail(arr), seen)
  ELSE <<Head(arr)>> \o first_occurrences(Tail(arr), seen \cup {Head(arr)})

\* np.unique(arr, return_counts=True) of a flat array
unique_values_unsorted(arr) == first_occurrences(arr, {})
unique_values(arr) == SortedSeq({arr[k] : k \in 1 .. Len(arr)})
unique_counts(arr) == LET u == unique_values(arr)
                      IN [k \in 1 .. Len(u) |-> Cardinality({x \in 1 .. Len(arr) : arr[x] = u[k]})]

\* ------------------------------------------------- random generator
\* np.random.seed(s): the generator state is a function of the seed alone
seedKeepsState(s) == rng
seed(s) == IF gen = "lcg" THEN s % 64 ELSE rng

\* the samples random_sample() can return in generator state r
Samples(r) == IF gen = "lcg" THEN {(r * Denom) \div 64} ELSE Uniform

\* the generator state after one random_sample() call in state r
advance(r) == IF gen = "lcg" THEN (5 * r + 3) % 64 ELSE r

\* the step log after one more step output
logged(s) == IF gen = "lcg" /\ Len(steplog) < MaxLog THEN Append(steplog, s) ELSE steplog

\* ---------------------------------------------- absorbing notebook
absorbic_states == <<1, 4>>
transient_states == <<2, 3>>

\* x in lst, for a Python list
InList(x, lst) == \E k \in 1 .. Len(lst) : lst[k] = x

\* the condition of `while currstate not in absorbic_states`
NotAbsorbedOnlyFirst(s) == s # absorbic_states[1]
NotAbsorbedOneStep(s) == ~InList(s, absorbic_states) /\ steps = 0
NotAbsorbedBodyFirst(s) == steps = 0 \/ ~InList(s, absorbic_states)
NotAbsorbed(s) == ~InList(s, absorbic_states)

\* transstate of the current iteration of `for transstate in transient_states`
transstate == transient_states[transidx]

Min(a, b) == IF a < b THEN a ELSE b

diagVars == <<timecountspi1, timeavg>>
ergVars == <<Mergodic, initdist, exp, niter, startstates, statemat, draws, diagVars,
             estimate, reported>>
expVars == <<transidx, i, finalstates, simfprobs, counts>>
runVars == <<run, prev>>
eigVars == <<eigenvalues, stationarystate>>
exactVars == <<f1, f4, fsum, eigVars>>
inputVars == <<notebook, gen, Mabs, rowexcess>>

\* cell 5: one step of the chain from state0, after np.random.seed(7)
OneStepCell ==
  /\ notebook = "absorbic" /\ pc = "onestep"
  /\ \E p \in {statetransprobs(Mabs, state0)} :
       IF choice_raises(p, rowexcess[state0])
         THEN /\ error' = "ValueError"
              /\ pc' = "failed"
              /\ rng' = seed(SeedOneStep)
              /\ UNCHANGED <<currstate, steplog>>
         ELSE /\ \E u \in Samples(seed(SeedOneStep)) :
                   /\ currstate' = choice(p, u) + 1
                   /\ steplog' = logged(currstate')
              /\ rng' = advance(seed(SeedOneStep))
              /\ pc' = "onerun_init"
              /\ error' = error
  /\ UNCHANGED <<inputVars, ergVars, expVars, runVars, exactVars, steps>>

\* cell 6, before the loop: currstate = 2; np.random.seed(100)
OneRunInit ==
  /\ notebook = "absorbic" /\ pc = "onerun_init"
  /\ currstate' = state0
  /\ steps' = 0
  /\ rng' = seed(SeedOneRun)
  /\ pc' = "onerun_while"
  /\ UNCHANGED <<inputVars, ergVars, expVars, runVars, exactVars, error, steplog>>

\* cell 6, before the loop, with the start state literal of `currstate=2`
\* set to any state of the chain
OneRunInitAny ==
  /\ notebook = "absorbic" /\ pc = "onerun_init"
  /\ \E s \in 1 .. Len(Mabs) : currstate' = s
  /\ steps' = 0
  /\ rng' = seed(SeedOneRun)
  /\ pc' = "onerun_while"
  /\ UNCHANGED <<inputVars, ergVars, expVars, runVars, exactVars, error, steplog>>

\* cell 6, one iteration of `while currstate not in absorbic_states`
OneRunStep ==
  /\ notebook = "absorbic" /\ pc = "onerun_while"
  /\ NotAbsorbed(currstate)
  /\ \E p \in {statetransprobs(Mabs, currstate)} :
       IF choice_raises(p, rowexcess[currstate])
         THEN /\ error' = "ValueError"
              /\ pc' = "failed"
              /\ UNCHANGED <<currstate, steplog, rng, steps>>
         ELSE /\ \E u \in Samples(rng) :
                   /\ currstate' = choice(p, u) + 1
                   /\ steplog' = logged(currstate')
              /\ rng' = advance(rng)
              /\ steps' = Min(steps + 1, MaxSteps + 1)
              /\ UNCHANGED <<pc, error>>
  /\ UNCHANGED <<inputVars, ergVars, expVars, runVars, exactVars>>

\* cell 6, the loop exits and the final state is printed
OneRunExit ==
  /\ notebook = "absorbic" /\ pc = "onerun_while"
  /\ ~NotAbsorbed(currstate)
  /\ pc' = "experiment_init"
  /\ UNCHANGED <<inputVars, ergVars, expVars, runVars, exactVars, rng, currstate, steps, error, steplog>>

\* cell 7, before the loops: np.random.seed(77); simfprobs = np.zeros((2,2))
ExperimentInit ==
  /\ notebook = "absorbic" /\ pc = "experiment_init"
  /\ rng' = seed(SeedAbsExperiment)
  /\ simfprobs' = <<zeros(2), zeros(2)>>
  /\ transidx' = 1
  /\ steplog' = <<>>
  /\ pc' = "for_transstate"
  /\ UNCHANGED <<inputVars, ergVars, runVars, exactVars, i, finalstates, counts, currstate, steps, error>>

\* cell 7, `for transstate in transient_states:` entering an iteration:
\* finalstates = np.zeros(numexp)
ForTransstate ==
  /\ notebook = "absorbic" /\ pc = "for_transstate"
  /\ transidx <= Len(transient_states)
  /\ finalstates' = zeros(numexp)
  /\ i' = 0
  /\ pc' = "for_i"
  /\ UNCHANGED <<inputVars, ergVars, runVars, exactVars, rng, transidx, simfprobs, counts, currstate, steps, error, steplog>>

\* cell 7, the for-transstate loop is exhausted: the cell ends
ExperimentDone ==
  /\ notebook = "absorbic" /\ pc = "for_transstate"
  /\ transidx > Len(transient_states)
  /\ pc' = "done"
  /\ UNCHANGED <<inputVars, ergVars, expVars, runVars, exactVars, rng, currstate, steps, error, steplog>>

\* cell 7, `for i in range(numexp):` entering a trial: currstate = transstate
\* cell 7, a trial that goes on from the state the previous trial ended in
TrialStartContinues ==
  /\ notebook = "absorbic" /\ pc = "for_i"
  /\ i < numexp
  /\ steps' = 0
  /\ pc' = "while"
  /\ UNCHANGED <<inputVars, ergVars, expVars, runVars, exactVars, rng, error, steplog,
                 currstate>>

TrialStart ==
  /\ notebook = "absorbic" /\ pc = "for_i"
  /\ i < numexp
  /\ currstate' = transstate
  /\ steps' = 0
  /\ pc' = "while"
  /\ UNCHANGED <<inputVars, ergVars, expVars, runVars, exactVars, rng, error, steplog>>

\* cell 7, one iteration of the while loop in which the transposition is
\* assigned back to the matrix (Mabs = Mabs.T) before the product
TrialStepTransposing ==
  /\ notebook = "absorbic" /\ pc = "while"
  /\ NotAbsorbed(currstate)
  /\ Mabs' = Transpose(Mabs)
  /\ \E p \in {Dot(Mabs', OneHot(Len(Mabs), currstate))} :
       IF choice_raises(p, rowexcess[currstate])
         THEN /\ error' = "ValueError"
              /\ pc' = "failed"
              /\ UNCHANGED <<currstate, steplog, rng, steps>>
         ELSE /\ \E u \in Samples(rng) :
                   /\ currstate' = choice(p, u) + 1
                   /\ steplog' = logged(currstate')
              /\ rng' = advance(rng)
              /\ steps' = Min(steps + 1, MaxSteps + 1)
              /\ UNCHANGED <<pc, error>>
  /\ UNCHANGED <<notebook, gen, rowexcess, ergVars, expVars, runVars, exactVars>>

\* cell 7, one iteration of `while currstate not in absorbic_states`
TrialStep ==
  /\ notebook = "absorbic" /\ pc = "while"
  /\ NotAbsorbed(currstate)
  /\ \E p \in {statetransprobs(Mabs, currstate)} :
       IF choice_raises(p, rowexcess[currstate])
         THEN /\ error' = "ValueError"
              /\ pc' = "failed"
              /\ UNCHANGED <<currstate, steplog, rng, steps>>
         ELSE /\ \E u \in Samples(rng) :
                   /\ currstate' = choice(p, u) + 1
                   /\ steplog' = logged(currstate')
              /\ rng' = advance(rng)
              /\ steps' = Min(steps + 1, MaxSteps + 1)
              /\ UNCHANGED <<pc, error>>
  /\ UNCHANGED <<inputVars, ergVars, expVars, runVars, exactVars>>

\* cell 7, the while loop exits: finalstates[i] = currstate
TrialRecord ==
  /\ notebook = "absorbic" /\ pc = "while"
  /\ ~NotAbsorbed(currstate)
  /\ finalstates' = [finalstates EXCEPT ![i + 1] = currstate]
  /\ i' = i + 1
  /\ pc' = "for_i"
  /\ UNCHANGED <<inputVars, ergVars, runVars, exactVars, rng, transidx, simfprobs, counts, currstate, steps, error, steplog>>

\* row[:] = values, with numpy broadcasting of a length-1 array
broadcastable(values, width) == Len(values) = width \/ Len(values) = 1
assign_row(values, width) == [k \in 1 .. width |-> IF Len(values) = 1 THEN values[1] ELSE values[k]]

\* cell 7, after the trials of one start state:
\*   unique, counts = np.unique(finalstates, return_counts=True)
\*   simfprobs[transstate-2,:] = counts/numexp
\* simfprobs holds the numerators; the divisor is numexp.
Tally ==
  /\ notebook = "absorbic" /\ pc = "for_i"
  /\ i = numexp
  /\ counts' = unique_counts(finalstates)
  /\ IF broadcastable(counts', 2)
       THEN /\ simfprobs' = [simfprobs EXCEPT ![transstate - 1] = assign_row(counts', 2)]
            /\ transidx' = transidx + 1
            /\ pc' = "for_transstate"
            /\ error' = error
       ELSE /\ error' = "ValueError"
            /\ pc' = "failed"
            /\ UNCHANGED <<simfprobs, transidx>>
  /\ UNCHANGED <<inputVars, ergVars, runVars, exactVars, rng, i, finalstates, currstate, steps, steplog>>

NextAbsorbic ==
  \/ OneStepCell
  \/ OneRunInit
  \/ OneRunStep
  \/ OneRunExit
  \/ ExperimentInit
  \/ ForTransstate
  \/ ExperimentDone
  \/ TrialStart
  \/ TrialStep
  \/ TrialRecord
  \/ Tally

\* ------------------------------ absorbing notebook, exact calculation
\* Mtrans = Mabs[1:3, 1:3]; m4 = Mabs[1:3, 3]; m1 = Mabs[1:3, 0]
Mtrans(M) == << <<M[2][2], M[2][3]>>, <<M[3][2], M[3][3]>> >>
m4(M) == <<M[2][4], M[3][4]>>
m1_second_column(M) == <<M[2][2], M[3][2]>>
m1(M) == <<M[2][1], M[3][1]>>

\* np.identity(n), in the unit of weight
identity(n) == [r \in 1 .. n |-> [c \in 1 .. n |-> IF r = c THEN One ELSE 0]]

\* A - B for matrices
MatSub(A, B) == [r \in 1 .. Len(A) |-> [c \in 1 .. Len(A[r]) |-> A[r][c] - B[r][c]]]

\* numpy.linalg.inv of a 2x2 matrix A of weights: the inverse is the adjugate
\* over the determinant; with A in units of 1/One the product inv(A) . m for a
\* vector m of weights is Dot(adjugate(A), m) / determinant(A) exactly.  inv
\* raises LinAlgError("Singular matrix") when the determinant is 0.
determinant(A) == A[1][1] * A[2][2] - A[1][2] * A[2][1]
adjugate(A) == << <<A[2][2], 0 - A[1][2]>>, <<0 - A[2][1], A[1][1]>> >>

\* np.dot(inv(np.identity(2) - Mtrans), m) as <<numerators, divisor>>
absorbing_probabilities(M, m) ==
  <<Dot(adjugate(MatSub(identity(2), Mtrans(M))), m),
    determinant(MatSub(identity(2), Mtrans(M)))>>

exactFrame == <<notebook, gen, rng, Mabs, Mergodic, initdist, rowexcess, currstate,
                steps, transidx, i, finalstates, simfprobs, exp, niter, startstates,
                statemat, draws, counts, diagVars, estimate, reported, steplog, run,
                prev>>

\* cell 2: f4 = np.dot(inv(np.identity(2) - Mtrans), m4) and the same for f1
ExactCell ==
  /\ notebook = "exact" /\ pc = "exact_calc"
  /\ IF determinant(MatSub(identity(2), Mtrans(Mabs))) = 0
       THEN /\ error' = "LinAlgError"
            /\ pc' = "failed"
            /\ UNCHANGED <<f1, f4>>
       ELSE /\ f4' = absorbing_probabilities(Mabs, m4(Mabs))
            /\ f1' = absorbing_probabilities(Mabs, m1(Mabs))
            /\ pc' = "exact_sum"
            /\ error' = error
  /\ UNCHANGED <<exactFrame, fsum, eigVars>>

\* cell 3, "confirm that f1+f4=1": the value of f1+f4 (both over the same
\* determinant)
ExactSumCell ==
  /\ notebook = "exact" /\ pc = "exact_sum"
  /\ fsum' = <<[k \in 1 .. 2 |-> f1[1][k] + f4[1][k]], f1[2]>>
  /\ pc' = "done"
  /\ UNCHANGED <<exactFrame, f1, f4, error, eigVars>>

NextExact == ExactCell \/ ExactSumCell

(***************************************************************************)
(* The eigenvector cell of the ergodic notebook.  The eigenvalues that     *)
(* np.linalg.eig(Mergodic.T) returned are the input: each is a real number *)
(* given as its offset from 1 in halves of err_tol, and column j of the    *)
(* eigenvector matrix belongs to eigenvalue j.  The order of the list is   *)
(* the order LAPACK produced, which numpy leaves unspecified.              *)
(***************************************************************************)
\* err_tol = 1e-9, in halves of err_tol
err_tol == 2

\* an eigenvalue of modulus well below 1
FarFromOne == -1000

EigOffsets == {FarFromOne, -2, -1, 0, 1, 2}

EigInputs == [1 .. numstates_erg -> EigOffsets]

\* max(eigenvalues)
MaxOf(arr) == CHOOSE m \in {arr[k] : k \in 1 .. Len(arr)} :
                \A k \in 1 .. Len(arr) : arr[k] <= m

\* np.where(cond) for a scalar condition: the index list [0] when it is true,
\* the empty list when it is false; as 1-based column numbers
np_where(cond) == IF cond THEN <<1>> ELSE <<>>

\*   if (abs(max(eigenvalues)-1)< err_tol):
\*       stationarystate= eigenvectors[:,np.where(abs(eigenvalues[0]-1)< err_tol)]
\*   else:
\*       stationarystate=np.zeros(len(eigenvalues))
EigSelect ==
  /\ notebook = "eig" /\ pc = "eig_select"
  /\ stationarystate' =
       IF Abs(MaxOf(eigenvalues)) < err_tol
         THEN <<"columns", np_where(Abs(eigenvalues[1]) < err_tol)>>
         ELSE <<"zeros", zeros(Len(eigenvalues))>>
  /\ pc' = "done"
  /\ UNCHANGED <<exactFrame, f1, f4, fsum, error, eigenvalues>>

NextEig == EigSelect

\* ------------------------------------------------ ergodic notebook
absVars == <<Mabs, steps, transidx, i, finalstates, simfprobs>>
ergInputs == <<notebook, gen, Mergodic, initdist, rowexcess>>

\* the rows of a matrix one after the other, as np.unique flattens its input
RECURSIVE Flatten(_)
Flatten(rows) == IF rows = <<>> THEN <<>> ELSE Head(rows) \o Flatten(Tail(rows))

\* mat[:, first:] for a 0-based first column
ColumnsFrom(mat, first) == [r \in 1 .. Len(mat) |-> SubSeq(mat[r], first + 1, Len(mat[r]))]

\* np.product(mat.shape) of a matrix with `rows` rows of `cols` columns
shape_product(rows, cols) == rows * cols

\* the simulation cell's setup: np.random.seed(100); statemat = np.zeros((numexp,
\* numiter)); startstates = np.zeros(numexp)
ErgSetup ==
  /\ notebook = "ergodic" /\ pc = "e_setup"
  /\ rng' = seed(SeedErgodic)
  /\ statemat' = [e \in 1 .. numexp |-> zeros(numiter)]
  /\ startstates' = zeros(numexp)
  /\ exp' = 0
  /\ draws' = <<0, 0>>
  /\ steplog' = <<>>
  /\ pc' = "e_for_exp"
  /\ UNCHANGED <<ergInputs, absVars, runVars, exactVars, diagVars, niter, currstate, counts, estimate, reported, error>>

\* `for exp in range(numexp):` entering a trial: the start state is drawn from
\* initdist and stored in startstates[exp]
ErgStartDraw ==
  /\ notebook = "ergodic" /\ pc = "e_for_exp"
  /\ exp < numexp
  /\ \E p \in {initdist} :
       IF choice_raises(p, 0)
         THEN /\ error' = "ValueError"
              /\ pc' = "failed"
              /\ UNCHANGED <<currstate, startstates, rng, niter, draws>>
         ELSE /\ \E u \in Samples(rng) :
                   /\ currstate' = choice(p, u) + 1
                   /\ startstates' = [startstates EXCEPT ![exp + 1] = currstate']
              /\ draws' = <<draws[1] + 1, draws[2]>>
              /\ rng' = advance(rng)
              /\ niter' = 0
              /\ pc' = "e_for_niter"
              /\ error' = error
  /\ UNCHANGED <<ergInputs, absVars, runVars, exactVars, diagVars, exp, statemat, counts, estimate, reported, steplog>>

\* the iterations `for niter in range(numiter)` are over when niter = numiter
IterationsDoneEarly(n) == n = numiter - 1
IterationsDoneLate(n) == n = numiter + 1
IterationsDone(n) == n = numiter

\* one iteration in which statemat[exp, niter] is assigned before the step is
\* taken, so that column 0 holds the start state
ErgStepRecordsBefore ==
  /\ notebook = "ergodic" /\ pc = "e_for_niter"
  /\ ~IterationsDone(niter)
  /\ \E p \in {statetransprobs(Mergodic, currstate)} :
       IF choice_raises(p, rowexcess[currstate])
         THEN /\ error' = "ValueError"
              /\ pc' = "failed"
              /\ UNCHANGED <<currstate, statemat, steplog, rng, niter, draws>>
         ELSE /\ \E u \in Samples(rng) :
                   /\ currstate' = choice(p, u) + 1
                   /\ statemat' = [statemat EXCEPT ![exp + 1][niter + 1] = currstate]
                   /\ steplog' = logged(currstate')
              /\ draws' = <<draws[1], draws[2] + 1>>
              /\ rng' = advance(rng)
              /\ niter' = niter + 1
              /\ UNCHANGED <<pc, error>>
  /\ UNCHANGED <<ergInputs, absVars, runVars, exactVars, diagVars, exp, startstates, counts, estimate, reported>>

\* one iteration of `for niter in range(numiter):`, a step of the chain recorded
\* in statemat[exp, niter]
ErgStep ==
  /\ notebook = "ergodic" /\ pc = "e_for_niter"
  /\ ~IterationsDone(niter)
  /\ \E p \in {statetransprobs(Mergodic, currstate)} :
       IF choice_raises(p, rowexcess[currstate])
         THEN /\ error' = "ValueError"
              /\ pc' = "failed"
              /\ UNCHANGED <<currstate, statemat, steplog, rng, niter, draws>>
         ELSE /\ \E u \in Samples(rng) :
                   /\ currstate' = choice(p, u) + 1
                   /\ statemat' = [statemat EXCEPT ![exp + 1][niter + 1] = currstate']
                   /\ steplog' = logged(currstate')
              /\ draws' = <<draws[1], draws[2] + 1>>
              /\ rng' = advance(rng)
              /\ niter' = niter + 1
              /\ UNCHANGED <<pc, error>>
  /\ UNCHANGED <<ergInputs, absVars, runVars, exactVars, diagVars, exp, startstates, counts, estimate, reported>>

\* the inner loop is exhausted: the next trial
ErgNextExp ==
  /\ notebook = "ergodic" /\ pc = "e_for_niter"
  /\ IterationsDone(niter)
  /\ exp' = exp + 1
  /\ pc' = "e_for_exp"
  /\ UNCHANGED <<ergInputs, absVars, runVars, exactVars, diagVars, draws, rng, niter, currstate, startstates, statemat, counts, estimate, reported, error, steplog>>

\* the outer loop is exhausted: the simulation cell ends
ErgLoopDone ==
  /\ notebook = "ergodic" /\ pc = "e_for_exp"
  /\ exp = numexp
  /\ pc' = "e_converge"
  /\ UNCHANGED <<ergInputs, absVars, runVars, exactVars, diagVars, draws, rng, exp, niter, currstate, startstates, statemat, counts, estimate, reported, error, steplog>>

\* mat[:, k] for a 1-based column k
Column(mat, k) == [r \in 1 .. Len(mat) |-> mat[r][k]]

\* the number of start times of the time average: range(0, numiter-100), 9900
\* of 10000 iterations
numtimes == (9900 * numiter) \div 10000

\* sum(arr[first:]) for a 0-based first index
SumFrom(arr, first) == SumSeq(SubSeq(arr, first + 1, Len(arr)))

\* the convergence cell:
\*   timecountspi1 = [(np.unique(statemat[:,i], return_counts=True)[1])[0]/numexp
\*                    for i in range(0, numiter)]
\*   for time in range(0, (numiter-100)):
\*       timeavg.append(sum(timecountspi1[time:])/(numiter-time))
\* timecountspi1 holds the numerators over numexp; timeavg the pairs of
\* numerator and divisor numexp * (numiter - time).
ErgConverge ==
  /\ notebook = "ergodic" /\ pc = "e_converge"
  /\ timecountspi1' = [k \in 1 .. numiter |-> unique_counts(Column(statemat, k))[1]]
  /\ timeavg' = [t \in 1 .. numtimes |->
                   <<SumFrom(timecountspi1', t - 1), numexp * (numiter - (t - 1))>>]
  /\ pc' = "e_burnin"
  /\ UNCHANGED <<ergInputs, absVars, runVars, exactVars, draws, rng, exp, niter, currstate,
                 startstates, statemat, counts, estimate, reported, error, steplog>>

\* the divisor of the burn-in cell: np.product(statemat[:,9000:].shape)
window_size_full == shape_product(numexp, numiter)
window_size == shape_product(numexp, numiter - burnin)

\* the burn-in cell:
\*   unique, counts = np.unique(statemat[:,9000:], return_counts=True)
\*   counts/np.product(statemat[:,9000:].shape)
ErgBurnin ==
  /\ notebook = "ergodic" /\ pc = "e_burnin"
  /\ counts' = unique_counts(Flatten(ColumnsFrom(statemat, burnin)))
  /\ estimate' = <<counts', window_size>>
  /\ pc' = "e_report"
  /\ UNCHANGED <<ergInputs, absVars, runVars, exactVars, diagVars, draws, rng, exp, niter, currstate, startstates, statemat, reported, error, steplog>>

\* the final comparison: "stationary state from simulatons: " +
\*   str(counts/np.product(statemat.shape))
ErgReport ==
  /\ notebook = "ergodic" /\ pc = "e_report"
  /\ reported' = <<counts, shape_product(numexp, numiter)>>
  /\ pc' = "done"
  /\ UNCHANGED <<ergInputs, absVars, runVars, exactVars, diagVars, draws, rng, exp, niter, currstate, startstates, statemat, counts, estimate, error, steplog>>

NextErgodic ==
  \/ ErgSetup
  \/ ErgStartDraw
  \/ ErgStep
  \/ ErgNextExp
  \/ ErgLoopDone
  \/ ErgConverge
  \/ ErgBurnin
  \/ ErgReport

\* ------------------------------------------------------ specification
InitOf(g, notebooks) ==
  /\ notebook \in notebooks
  /\ gen = g
  /\ rng = 0
  /\ pc = IF notebook = "absorbic" THEN "onestep"
          ELSE IF notebook = "ergodic" THEN "e_setup"
          ELSE IF notebook = "eig" THEN "eig_select" ELSE "exact_calc"
  /\ \E a \in (IF notebook = "absorbic" THEN AbsInputs
                ELSE IF notebook = "exact" THEN {<<M, <<0, 0, 0, 0>> >> : M \in ExactMatrices}
                ELSE {<<MabsExample, <<0, 0, 0, 0>> >>}) :
     \E input \in (IF notebook = "ergodic" THEN ErgRuns
                    ELSE {<<MergodicExample, <<10, 5, 5>>, <<0, 0, 0>> >>}) :
        /\ Mabs = a[1]
        /\ Mergodic = input[1]
        /\ initdist = input[2]
        /\ rowexcess = IF notebook = "ergodic" THEN input[3] ELSE a[2]
  /\ currstate = 0
  /\ steps = 0
  /\ transidx = 1
  /\ i = 0
  /\ finalstates = zeros(numexp)
  /\ simfprobs = <<zeros(2), zeros(2)>>
  /\ exp = 0
  /\ niter = 0
  /\ startstates = zeros(numexp)
  /\ statemat = [e \in 1 .. numexp |-> zeros(numiter)]
  /\ draws = <<0, 0>>
  /\ counts = <<>>
  /\ timecountspi1 = <<>>
  /\ timeavg = <<>>
  /\ f1 = <<>>
  /\ f4 = <<>>
  /\ fsum = <<>>
  /\ eigenvalues \in (IF notebook = "eig" THEN EigInputs ELSE {<<>>})
  /\ stationarystate = <<"unset", <<>> >>
  /\ estimate = <<>>
  /\ reported = <<>>
  /\ error = "none"
  /\ steplog = <<>>
  /\ run = 1
  /\ prev = <<>>

InitWith(g) == InitOf(g, {"absorbic", "ergodic"})

Init == InitWith("abstract")

Next == NextAbsorbic \/ NextErgodic

\* every uniform sample is possible at every draw
Spec == Init /\ [][Next]_vars

\* the absorbing notebook alone, under fair random choice: the interpreter
\* always executes the next statement, and a successor of positive probability
\* of a transient state that is stepped from again and again is eventually drawn
StepTo(s, j) ==
  /\ currstate = s /\ pc \in {"onerun_while", "while"}
  /\ (OneRunStep \/ TrialStep)
  /\ currstate' = j

\* no row of M is refused by np.random.choice
RowsAccepted(M, x) == \A s \in 1 .. Len(M) : ~choice_raises(M[s], x[s])

FairInit == Init /\ notebook = "absorbic" /\ RowsAccepted(Mabs, rowexcess)

FairSpec ==
  /\ FairInit
  /\ [][NextAbsorbic]_vars
  /\ WF_vars(NextAbsorbic)
  /\ \A s \in {2, 3} : \A j \in 1 .. 4 : SF_vars(StepTo(s, j))

\* the absorbing notebook with the one-run loop started from any state
TrialNext ==
  \/ OneStepCell
  \/ OneRunInitAny
  \/ OneRunStep
  \/ OneRunExit
  \/ ExperimentInit
  \/ ForTransstate
  \/ ExperimentDone
  \/ TrialStart
  \/ TrialStep
  \/ TrialRecord
  \/ Tally

TrialInit == InitOf("abstract", {"absorbic"})

TrialSpec == TrialInit /\ [][TrialNext]_vars

\* the exact calculation on every matrix of ExactMatrices
ExactInit == InitOf("abstract", {"exact"})

ExactSpec == ExactInit /\ [][NextExact]_vars

\* the eigenvector cell on every eigenvalue list of EigInputs
EigInit == InitOf("abstract", {"eig"})

EigSpec == EigInit /\ [][NextEig]_vars

\* the ergodic notebook alone on distributions np.random.choice accepts, the
\* periodic and the reducible matrix from every initial distribution: the
\* interpreter always executes the next statement
FairErgInit ==
  /\ Init /\ notebook = "ergodic"
  /\ RowsAccepted(Mergodic, rowexcess) /\ ~choice_raises(initdist, 0)
  /\ Mergodic \in {MergodicPeriodic, MergodicReducible}

FairErgSpec == FairErgInit /\ [][NextErgodic]_vars /\ WF_vars(NextErgodic)

\* the seeded generator, and the experiment cell executed a second time after
\* the first execution has completed (its outputs are kept in prev)
Rerun ==
  /\ pc = "done" /\ run = 1
  /\ prev' = [finalstates |-> finalstates, simfprobs |-> simfprobs,
              startstates |-> startstates, statemat |-> statemat,
              steplog |-> steplog]
  /\ run' = 2
  /\ pc' = IF notebook = "absorbic" THEN "experiment_init" ELSE "e_setup"
  /\ UNCHANGED <<notebook, gen, rng, Mabs, Mergodic, initdist, rowexcess, currstate, steps,
                 transidx, i, finalstates, simfprobs, exp, niter, startstates,
                 statemat, draws, counts, diagVars, f1, f4, fsum, eigVars, estimate,
                 reported, error, steplog>>

SeededInit == InitWith("lcg")

SeededNext == Next \/ Rerun

SeededSpec == SeededInit /\ [][SeededNext]_vars

\* ---------------------------------------------------------- properties
\* the states reachable from the set S along transitions of positive probability
RECURSIVE ReachFrom(_, _)
ReachFrom(M, S) == LET S2 == S \cup {j \in 1 .. Len(M) : \E k \in S : M[k][j] > 0}
                   IN IF S2 = S THEN S ELSE ReachFrom(M, S2)

\* C1: a single step of the chain, in the one-step cell, in the while loops of
\* the absorbing notebook and in the inner loop of the ergodic notebook, only
\* moves to a state whose weight in the row of the state it leaves is positive.
C1_StepPositiveWeight ==
  [][/\ (pc = "onestep" /\ pc' = "onerun_init") => Mabs[state0][currstate'] > 0
     /\ (pc = "onerun_while" /\ pc' = "onerun_while") => Mabs[currstate][currstate'] > 0
     /\ (pc = "while" /\ pc' = "while") => Mabs[currstate][currstate'] > 0
     /\ (pc = "e_for_niter" /\ pc' = "e_for_niter") => Mergodic[currstate][currstate'] > 0]_vars

\* a trial of the experiment has stepped within a matrix whose transient rows
\* give state 4 the weight 0
C1_Witness ==
  /\ notebook = "absorbic" /\ pc = "while" /\ steps >= 1
  /\ Mabs = MabsUnreach /\ currstate = 3

\* C2: every terminal state recorded in finalstates is a state of
\* absorbic_states, it is the state the trial's while loop stopped in, and once
\* all trials of a start state are over no entry of finalstates is transient
\* or still 0.
C2_FinalStatesAbsorbing ==
  notebook = "absorbic" =>
    /\ \A k \in 1 .. numexp : k <= i => InList(finalstates[k], absorbic_states)
    /\ (pc = "done" \/ (pc = "for_transstate" /\ transidx > 1)) => i = numexp
    /\ (pc = "for_i" /\ i > 0) => finalstates[i] = currstate

\* an experiment is over with trials absorbed in state 1 and in state 4
C2_Witness ==
  /\ notebook = "absorbic" /\ pc = "done" /\ i = numexp
  /\ \E k \in 1 .. numexp : finalstates[k] = 1
  /\ \E k \in 1 .. numexp : finalstates[k] = 4

\* C3: once the trials of a start state are tallied, its row of simfprobs
\* (numerators over numexp) sums to numexp: the probabilities sum to 1.
C3_RowSumsToOne ==
  (notebook = "absorbic" /\ pc \in {"for_transstate", "done"}) =>
    \A r \in 1 .. (transidx - 1) : SumSeq(simfprobs[r]) = numexp

\* C4: an absorbing state that cannot be reached from a transient start state
\* gets probability 0 in that start state's row, the row still sums to 1 and
\* the experiment ends without an error.
C4_UnreachableGetsZero ==
  (notebook = "absorbic" /\ pc \in {"done", "failed"}) =>
    /\ error = "none"
    /\ \A r \in 1 .. 2 : \A c \in 1 .. 2 :
         absorbic_states[c] \notin ReachFrom(Mabs, {transient_states[r]}) =>
           (simfprobs[r][c] = 0 /\ SumSeq(simfprobs[r]) = numexp)

\* every transient state has a path of positive probability to an absorbing state
EveryTransientReachesAbsorbing ==
  \A r \in 1 .. Len(transient_states) :
    \E c \in 1 .. Len(absorbic_states) :
      absorbic_states[c] \in ReachFrom(Mabs, {transient_states[r]})

\* C5: if every transient state has a path of positive probability to an
\* absorbing state then, under fair random choice, every trial leaves its while
\* loop and the whole experiment completes.
C5_ExperimentCompletes ==
  EveryTransientReachesAbsorbing =>
    /\ (pc = "while") ~> (pc = "for_i")
    /\ <>(pc = "done")

\* the experiment has completed on a matrix whose transient states reach an
\* absorbing state
C5_Witness ==
  /\ notebook = "absorbic" /\ pc = "done" /\ Mabs = MabsExample
  /\ EveryTransientReachesAbsorbing

\* C6: no trial takes more than the step budget of steps: a trial that has
\* spent the budget without reaching an absorbing state fails with
\* NonTerminatingChain instead of stepping on.
C6_StepBudgetEnforced ==
  (pc = "while" /\ steps > MaxSteps) => error = "NonTerminatingChain"

\* the cell of statemat for trial e (1-based) and iteration k has been written
Recorded(e, k) == e <= exp \/ (e = exp + 1 /\ pc = "e_for_niter" /\ k <= niter)

\* the start state of trial e has been drawn
Started(e) == e <= exp \/ (e = exp + 1 /\ pc = "e_for_niter")

\* C7: while the execution has not failed, every trajectory starts in a state
\* of positive initial weight and every
\* cell of statemat written so far holds the state reached by one step from the
\* state before it; a trial ends after exactly numiter steps, and after the
\* experiment all numexp x numiter cells hold a state 1..N, none the initial 0.
C7_TrajectoriesRecorded ==
  (notebook = "ergodic" /\ pc \notin {"e_setup", "failed"}) =>
    /\ \A e \in 1 .. numexp :
         IF Started(e)
           THEN startstates[e] \in 1 .. numstates_erg /\ initdist[startstates[e]] > 0
           ELSE startstates[e] = 0
    /\ \A e \in 1 .. numexp : \A k \in 1 .. numiter :
         IF Recorded(e, k)
           THEN /\ statemat[e][k] \in 1 .. numstates_erg
                /\ Mergodic[IF k = 1 THEN startstates[e] ELSE statemat[e][k - 1]][statemat[e][k]] > 0
           ELSE statemat[e][k] = 0
    /\ pc \in {"e_burnin", "e_report", "done"} => exp = numexp
    /\ pc = "e_for_exp" => (exp = 0 \/ niter = numiter)

\* the experiment is over and two trajectories started in different states
C7_Witness ==
  /\ notebook = "ergodic" /\ pc = "done" /\ exp = numexp
  /\ \E e1, e2 \in 1 .. numexp : startstates[e1] # startstates[e2]
  /\ \A e \in 1 .. numexp : \A k \in 1 .. numiter : statemat[e][k] # 0

\* the number of cells of statemat at or after the burn-in column that hold v
CountInWindow(v) ==
  Cardinality({c \in (1 .. numexp) \X ((burnin + 1) .. numiter) : statemat[c[1]][c[2]] = v})

\* the states that occur at or after the burn-in column
InWindow == {v \in 0 .. numstates_erg : CountInWindow(v) > 0}

C9_ReportedSumsToOne ==
  (notebook = "ergodic" /\ pc = "done") => SumSeq(reported[1]) = reported[2]

\* s is an initial part of t
IsPrefix(s, t) == Len(s) <= Len(t) /\ SubSeq(t, 1, Len(s)) = s

\* C10: the second execution of an experiment under the same seed produces the
\* step outputs of the first in the same order, and ends with the same
\* finalstates, simfprobs, startstates and statemat.
C10_SameSeedSameRun ==
  run = 2 =>
    /\ pc \notin {"experiment_init", "e_setup"} => IsPrefix(steplog, prev.steplog)
    /\ pc = "done" =>
         /\ steplog = prev.steplog
         /\ finalstates = prev.finalstates
         /\ simfprobs = prev.simfprobs
         /\ startstates = prev.startstates
         /\ statemat = prev.statemat

\* the second execution has completed after logging steps
C10_Witness == run = 2 /\ pc = "done" /\ Len(steplog) >= 2

\* the next statement to execute is a draw of np.random.choice
DrawPending ==
  \/ pc = "onestep"
  \/ pc \in {"onerun_while", "while"} /\ NotAbsorbed(currstate)
  \/ pc = "e_for_exp" /\ exp < numexp
  \/ pc = "e_for_niter" /\ niter < numiter

\* the distribution that draw is made from, and the excess of its sum
PendingRow ==
  IF pc = "onestep" THEN Mabs[state0]
  ELSE IF pc \in {"onerun_while", "while"} THEN Mabs[currstate]
  ELSE IF pc = "e_for_exp" THEN initdist
  ELSE Mergodic[currstate]

PendingExcess ==
  IF pc = "onestep" THEN rowexcess[state0]
  ELSE IF pc = "e_for_exp" THEN 0
  ELSE rowexcess[currstate]

\* p has a negative weight, or its sum is off 1 by more than tol units of 1e-9
Malformed(p, x, tol) ==
  \/ \E k \in 1 .. Len(p) : p[k] < 0
  \/ (SumSeq(p) - One) * (1000000000 \div One) + x > tol
  \/ (One - SumSeq(p)) * (1000000000 \div One) - x > tol

\* C11 as stated: a draw from a row or an initial distribution that has a
\* negative weight, or whose sum is off 1 by more than 1e-9, fails with an
\* error and yields no next state.
C11_MalformedRowFailsAt1e9 ==
  [][(DrawPending /\ Malformed(PendingRow, PendingExcess, 1)) =>
       (error' # "none" /\ pc' = "failed" /\ currstate' = currstate)]_vars

\* C11 as amended: a draw from a row or an initial distribution that has a
\* negative weight, or whose sum is off 1 by more than np.random.choice's own
\* tolerance of 1.49e-8, fails with ValueError and yields no next state: the
\* current state, startstates, statemat and finalstates stay as they were.
C11_MalformedRowFailsAtAtol ==
  [][(DrawPending /\ Malformed(PendingRow, PendingExcess, 14)) =>
       /\ error' = "ValueError" /\ pc' = "failed"
       /\ UNCHANGED <<currstate, startstates, statemat, finalstates>>]_vars

\* a trial of the experiment has stepped, reached state 3 whose row is off by
\* 2e-8, and the draw from that row has failed
C11_Witness ==
  /\ notebook = "absorbic" /\ pc = "failed" /\ error = "ValueError"
  /\ rowexcess[3] = 20 /\ currstate = 3 /\ steps >= 1 /\ transidx = 1

\* C12: an experiment that fails on a malformed distribution fails before the
\* first step of its first trial: the absorbing experiment with no trial
\* recorded and no step taken, the ergodic experiment in its first trial with
\* no step recorded.
C12_FailsBeforeFirstStep ==
  [][(error = "none" /\ error' = "ValueError") =>
       /\ pc = "while" => (transidx = 1 /\ i = 0 /\ steps = 0)
       /\ pc \in {"e_for_exp", "e_for_niter"} => (exp = 0 /\ niter = 0)]_vars

\* the states the chain can be in exactly k steps after being in a state of S
RECURSIVE After(_, _, _)
After(M, S, k) ==
  IF k = 0 THEN S
  ELSE After(M, {j \in 1 .. Len(M) : \E s \in S : M[s][j] > 0}, k - 1)

\* every state reaches every state
Irreducible(M) == \A s \in 1 .. Len(M) : ReachFrom(M, {s}) = 1 .. Len(M)

\* the numbers of steps, up to Len(M) squared, after which state 1 can be
\* back in state 1, and their greatest common divisor, the period
ReturnTimes(M) == {k \in 1 .. (Len(M) * Len(M)) : 1 \in After(M, {1}, k)}
Period(M) ==
  CHOOSE d \in 1 .. (Len(M) * Len(M)) :
    /\ \A k \in ReturnTimes(M) : k % d = 0
    /\ \A e \in 1 .. (Len(M) * Len(M)) : (\A k \in ReturnTimes(M) : k % e = 0) => e <= d

\* the occupation distribution of M does not converge to one stationary
\* distribution from every start
NoStationary(M) == ~Irreducible(M) \/ Period(M) > 1

\* C13: for a well-formed reducible or periodic matrix the ergodic experiment
\* fails with NoStationaryDistribution and never yields an estimate: no burn-in estimate
\* is computed and nothing is reported.
C13_NonErgodicFails ==
  (/\ notebook = "ergodic" /\ NoStationary(Mergodic)
   /\ ~Malformed(initdist, 0, 14)
   /\ \A s \in 1 .. Len(Mergodic) : ~Malformed(Mergodic[s], rowexcess[s], 14)) =>
    /\ estimate = <<>> /\ reported = <<>>
    /\ pc = "done" => error = "NoStationaryDistribution"

\* C14: on every matrix and initial distribution np.random.choice accepts,
\* reducible and periodic ones included, the ergodic experiment reaches its end
\* and stays there, having made exactly numexp start draws and numexp * numiter
\* single-step transitions.
C14_ErgodicTerminates ==
  <>[](pc = "done" /\ draws = <<numexp, numexp * numiter>>)

\* the experiment on the periodic matrix is over
C14_Witness ==
  /\ notebook = "ergodic" /\ pc = "done" /\ Mergodic = MergodicPeriodic
  /\ draws = <<numexp, numexp * numiter>>

\* the numerators v over the divisor d are a distribution over n outcomes
WellFormed(v, d, n) ==
  /\ Len(v) = n
  /\ \A k \in 1 .. Len(v) : v[k] >= 0
  /\ SumSeq(v) = d

\* C15: an experiment that completes has run all its trials and yields a
\* distribution: each row of simfprobs over the two absorbing states, the
\* burn-in estimate and the reported vector over the numstates states; an
\* experiment that fails leaves no result built from the trials before the
\* failure.
C15_NoPartialOutcome ==
  /\ (notebook = "absorbic" /\ pc = "done") =>
       /\ error = "none" /\ i = numexp
       /\ \A r \in 1 .. Len(transient_states) :
            WellFormed(simfprobs[r], numexp, Len(absorbic_states))
  /\ (notebook = "ergodic" /\ pc = "done") =>
       /\ error = "none" /\ exp = numexp
       /\ WellFormed(estimate[1], estimate[2], numstates_erg)
       /\ WellFormed(reported[1], reported[2], numstates_erg)
  /\ pc = "failed" =>
       /\ error # "none"
       /\ simfprobs = <<zeros(2), zeros(2)>>
       /\ estimate = <<>> /\ reported = <<>>

\* the states i of M with M[i][i] = 1
DiagonalOnes(M) == {s \in 1 .. Len(M) : M[s][s] = One}

\* C16: once a cell has set it, the absorbing set of the absorbing notebook is
\* the set of states i with Mabs[i][i] = 1, and every test of the while loops
\* decides by it: a trial goes on stepping exactly when its current state is
\* not such a state.
C16_AbsorbingSetFromMatrix ==
  (notebook = "absorbic" /\ pc \notin {"onestep", "onerun_init"}) =>
    /\ {absorbic_states[k] : k \in 1 .. Len(absorbic_states)} = DiagonalOnes(Mabs)
    /\ pc \in {"onerun_while", "while"} =>
         (NotAbsorbed(currstate) <=> currstate \notin DiagonalOnes(Mabs))

\* the orders in which n trials can be executed or aggregated
Perms(n) == {f \in [1 .. n -> 1 .. n] : \A a, b \in 1 .. n : f[a] = f[b] => a = b}

\* the array with its entries in the order f
Permute(arr, f) == [k \in 1 .. Len(arr) |-> arr[f[k]]]

\* the orders of the numexp trials of an experiment
TrialOrders == Perms(numexp)

\* C17: the tally of the trials does not depend on their order.  With the
\* trials of a start state in any other order, np.unique returns the same
\* states with the same counts and the row of simfprobs is the same; with the
\* trajectories of statemat in any other order, the counts of the burn-in
\* window are the same.
C17_TallyOrderIndependent ==
  /\ (notebook = "absorbic" /\ (pc = "done" \/ (pc = "for_transstate" /\ transidx > 1))) =>
       \A f \in TrialOrders :
         /\ unique_values(Permute(finalstates, f)) = unique_values(finalstates)
         /\ unique_counts(Permute(finalstates, f)) = counts
         /\ assign_row(unique_counts(Permute(finalstates, f)), 2) = simfprobs[transidx - 1]
  /\ (notebook = "ergodic" /\ pc \in {"e_report", "done"}) =>
       \A f \in TrialOrders :
         /\ unique_values(Flatten(ColumnsFrom(Permute(statemat, f), burnin)))
              = unique_values(Flatten(ColumnsFrom(statemat, burnin)))
         /\ unique_counts(Flatten(ColumnsFrom(Permute(statemat, f), burnin))) = counts
         /\ estimate[1] = unique_counts(Flatten(ColumnsFrom(Permute(statemat, f), burnin)))

\* the trials of start state 2 are tallied, the first absorbed in state 4 and
\* the last in state 1
C17_Witness ==
  /\ notebook = "absorbic" /\ pc = "for_transstate" /\ transidx = 2
  /\ finalstates[1] = 4 /\ finalstates[numexp] = 1
  /\ simfprobs[1][1] > 0

\* C18: no statement of either notebook changes the transition matrix or the
\* initial distribution.  A step of the absorbing notebook changes nothing of
\* the experiment but the current state (and the generator); a step of the
\* ergodic notebook changes the current state and writes it into its own cell
\* of statemat and nowhere else.
C18_MatrixNeverModified ==
  [][/\ Mabs' = Mabs /\ Mergodic' = Mergodic /\ initdist' = initdist
     /\ (pc \in {"onerun_while", "while"} /\ pc' = pc) =>
          UNCHANGED <<transidx, i, finalstates, simfprobs, counts>>
     /\ (pc = "e_for_niter" /\ pc' = pc) =>
          /\ UNCHANGED <<exp, startstates, counts, estimate, reported>>
          /\ \A e \in 1 .. numexp : \A k \in 1 .. numiter :
               (e # exp + 1 \/ k # niter + 1) => statemat'[e][k] = statemat[e][k]]_vars

\* a trial on the notebook's matrix is in state 3 after two steps or more
C18_Witness ==
  /\ notebook = "absorbic" /\ pc = "while" /\ steps >= 2
  /\ Mabs = MabsExample /\ rowexcess = <<0, 0, 0, 0>> /\ currstate = 3

\* C19: in the exact calculation the absorption probabilities of each transient
\* start state sum to 1: for k = 1 (state 2) and k = 2 (state 3) the numerators
\* of f1[k] and f4[k] add up to their common divisor, and the confirming cell
\* shows the vector [1, 1].
C19_ExactProbabilitiesSumToOne ==
  /\ (notebook = "exact" /\ pc \in {"exact_sum", "done"}) =>
       /\ f1[2] = f4[2] /\ f1[2] # 0
       /\ \A k \in 1 .. 2 : f1[1][k] + f4[1][k] = f1[2]
  /\ (notebook = "exact" /\ pc = "done") =>
       \A k \in 1 .. 2 : fsum[1][k] = fsum[2]

\* the exact calculation of the notebook's matrix is confirmed: f21 = 8/23
C19_Witness ==
  /\ notebook = "exact" /\ pc = "done" /\ Mabs = MabsExample
  /\ f1[1][1] * 23 = 8 * f1[2]
  /\ f4[1][2] * 69 = 28 * f4[2]

\* the matrix the chain of this notebook steps in
StepMatrix == IF notebook = "ergodic" THEN Mergodic ELSE Mabs

\* C21: the distribution of a step out of state s is row s of the matrix: for
\* every state s the product of the transposed matrix and the one-hot vector of
\* s is (M[s][1], ..., M[s][N]), and the draw that is about to be made from
\* the matrix uses the row of the state it leaves.
C21_StepUsesRow ==
  /\ \A s \in 1 .. Len(StepMatrix) :
       /\ Len(statetransprobs(StepMatrix, s)) = Len(StepMatrix)
       /\ \A j \in 1 .. Len(StepMatrix) : statetransprobs(StepMatrix, s)[j] = StepMatrix[s][j]
  /\ (DrawPending /\ pc # "e_for_exp") =>
       statetransprobs(StepMatrix, IF pc = "onestep" THEN state0 ELSE currstate) = PendingRow

\* a step of the ergodic loop is about to leave state 2 of the notebook's
\* matrix, whose row 2 differs from its column 2
C21_Witness ==
  /\ notebook = "ergodic" /\ pc = "e_for_niter" /\ niter = 1 /\ currstate = 2
  /\ Mergodic = MergodicExample
  /\ \E j \in 1 .. 3 : Mergodic[2][j] # Mergodic[j][2]

\* C22: once a cell has set it, the current state is a state of the chain: in
\* the loops of the absorbing notebook currstate is in 1 .. 4, in the loops of
\* the ergodic notebook in 1 .. numstates, so the one-hot index currstate-1 is
\* within the dimension of the matrix.  Before the first assignment (also when
\* the first draw of all has failed) currstate is not set, written 0.
C22_CurrstateInRange ==
  /\ (notebook = "absorbic" /\ pc \notin {"onestep", "failed"}) => currstate \in 1 .. Len(Mabs)
  /\ (notebook = "ergodic" /\ pc \notin {"e_setup", "e_for_exp", "failed"}) =>
       currstate \in 1 .. numstates_erg
  /\ (notebook = "absorbic" /\ pc = "failed") => currstate \in 0 .. Len(Mabs)
  /\ (notebook = "ergodic" /\ pc \in {"e_for_exp", "failed"}) =>
       currstate \in 0 .. numstates_erg

\* a step of the ergodic loop has entered the last state of the chain
C22_Witness ==
  /\ notebook = "ergodic" /\ pc = "e_for_niter" /\ niter >= 1
  /\ currstate = numstates_erg /\ startstates[exp + 1] = 1

\* C23: an absorbing state is never left: a step of the chain from a state i
\* with M[i][i] = 1 ends in i, in the ergodic loop, which steps on after
\* entering such a state, and wherever the absorbing notebook steps from one.
C23_AbsorbingNeverLeft ==
  [][/\ (pc = "e_for_niter" /\ niter' = niter + 1 /\ currstate \in DiagonalOnes(Mergodic)) =>
          (currstate' = currstate /\ statemat'[exp + 1][niter'] = currstate)
     /\ (pc \in {"onerun_while", "while"} /\ pc' = pc /\ currstate \in DiagonalOnes(Mabs)) =>
          currstate' = currstate]_vars

\* a trajectory of the reducible matrix entered the absorbing state 1 from
\* state 2 and has stepped from state 1 since
C23_Witness ==
  /\ notebook = "ergodic" /\ pc = "e_for_niter" /\ niter = numiter
  /\ Mergodic = MergodicReducible /\ startstates[exp + 1] = 2
  /\ statemat[exp + 1][1] = 1 /\ currstate = 1

\* the number of trials of the last tallied start state that ended in state v
EndedIn(v) == Cardinality({k \in 1 .. numexp : finalstates[k] = v})

\* C24: in the row of simfprobs tallied last, the first entry is the fraction
\* of the trials that ended in state 1 and the second the fraction that ended
\* in state 4 (numerators over numexp), whatever the outcome of the trials.
C24_RowHoldsFractions ==
  (notebook = "absorbic" /\ (pc = "done" \/ (pc = "for_transstate" /\ transidx > 1))) =>
    /\ simfprobs[transidx - 1][1] = EndedIn(1)
    /\ simfprobs[transidx - 1][2] = EndedIn(4)

\* C25: once the convergence cell has run, timecountspi1[k] is, for every
\* recorded step k, the number of trials that are in state 1 at step k (over
\* numexp), 0 where no trial is in state 1.
C25_FractionInStateOne ==
  (notebook = "ergodic" /\ pc \in {"e_burnin", "e_report", "done"}) =>
    \A k \in 1 .. numiter :
      timecountspi1[k] = Cardinality({e \in 1 .. numexp : statemat[e][k] = 1})

\* the eigenvalue list has an entry within err_tol of 1 at position k
NearOne(k) == Abs(eigenvalues[k]) < err_tol

\* C26: whenever the largest eigenvalue is within err_tol of 1, the eigenvector
\* cell selects exactly one column of the eigenvector matrix, and it is the
\* column at the position of an eigenvalue within err_tol of 1, wherever that
\* position is in the list.
C26_SelectsColumnOfEigenvalueOne ==
  (notebook = "eig" /\ pc = "done" /\ Abs(MaxOf(eigenvalues)) < err_tol) =>
    /\ stationarystate[1] = "columns"
    /\ Len(stationarystate[2]) = 1
    /\ NearOne(stationarystate[2][1])

\* C27: every trial of the experiment begins at the start state transstate of
\* its round with no step taken, whatever state the previous trial ended in;
\* a round begins with an empty tally, a trial writes only its own entry of
\* the tally, and the entries of the trials not yet run hold no state.
C27_TrialsStartAtTransstate ==
  [][notebook = "absorbic" =>
       /\ (pc = "for_i" /\ pc' = "while") =>
             (currstate' = transstate /\ steps' = 0 /\ finalstates' = finalstates)
       /\ (pc = "for_transstate" /\ pc' = "for_i") =>
             (finalstates' = zeros(numexp) /\ i' = 0)
       /\ (pc = "while" /\ pc' = "for_i") =>
             /\ i' = i + 1
             /\ finalstates'[i'] = currstate
             /\ \A k \in 1 .. numexp : k # i' => finalstates'[k] = finalstates[k]
       /\ (pc' \in {"for_i", "while"}) =>
             \A k \in 1 .. numexp : k > i' => finalstates'[k] = 0]_vars

\* the second trial of the round of state 3 begins in state 3 after the first
\* trial of that round ended in state 4
C27_Witness ==
  /\ notebook = "absorbic" /\ pc = "while" /\ transidx = 2 /\ i = 1
  /\ finalstates[1] = 4 /\ currstate = 3 /\ steps = 0

\* C28: a trial of a `while currstate not in absorbic_states` loop that is at
\* its start (no step taken) in a state of the absorbing set leaves the loop
\* at once: no step is taken, no sample is drawn, nothing is printed, and the
\* state it ends with (recorded in finalstates in the experiment) is its
\* start state.
C28_AbsorbedStartTakesNoStep ==
  [][(/\ notebook = "absorbic"
      /\ pc \in {"onerun_while", "while"}
      /\ steps = 0
      /\ InList(currstate, absorbic_states)) =>
       /\ pc' = (IF pc = "onerun_while" THEN "experiment_init" ELSE "for_i")
       /\ UNCHANGED <<currstate, rng, steps, steplog, error>>
       /\ (pc = "while" => finalstates'[i + 1] = currstate)]_vars

\* the one-run loop started in state 4 has ended in state 4 with no step taken
C28_Witness ==
  /\ notebook = "absorbic" /\ pc = "experiment_init"
  /\ steps = 0 /\ currstate = 4 /\ steplog = <<>>

\* the state the trajectory exp + 1 is in before its step number k (1-based)
StateBefore(k) == IF k = 1 THEN startstates[exp + 1] ELSE statemat[exp + 1][k - 1]

\* C29: the start draw of a trajectory writes the drawn state to startstates
\* and leaves statemat as it is; the step number k of the trajectory goes
\* from the start state (k = 1) or from the entry of column k - 1 to the new
\* state and writes the new state, and nothing else, to column k of statemat,
\* so that column k holds the state after k transitions counted from the
\* start state (statemat[exp, k-1] of the notebook, 0-based), and the last
\* column the state after numiter transitions.
C29_StatematHoldsStatesAfterSteps ==
  [][notebook = "ergodic" =>
       /\ (pc = "e_for_exp" /\ pc' = "e_for_niter") =>
             /\ statemat' = statemat
             /\ startstates'[exp + 1] = currstate'
             /\ niter' = 0
       /\ (pc = "e_for_niter" /\ pc' = "e_for_niter") =>
             /\ niter' = niter + 1 /\ niter' <= numiter
             /\ currstate = StateBefore(niter')
             /\ statemat'[exp + 1][niter'] = currstate'
             /\ draws'[2] = exp * numiter + niter'
             /\ startstates' = startstates
             /\ \A e \in 1 .. numexp : \A k \in 1 .. numiter :
                   (e # exp + 1 \/ k # niter') => statemat'[e][k] = statemat[e][k]
       /\ (pc = "e_for_niter" /\ pc' = "e_for_exp") => niter = numiter]_vars

\* a completed run of the periodic chain: every trajectory's first column
\* differs from its start state
C29_Witness ==
  /\ notebook = "ergodic" /\ pc = "done" /\ Mergodic = MergodicPeriodic
  /\ \A e \in 1 .. numexp : statemat[e][1] # startstates[e] /\ statemat[e][1] # 0

====
